---- MODULE Spec2Model ----
(***************************************************************************)
(* Model of the docstream ingestion worker:                                *)
(*   - VisionPDFParser.parse_pdf_in_batches (pdf_parser.py), a generator   *)
(*     that renders and transcribes a PDF window by window;                *)
(*   - DocumentChunker.chunk_batch (core/chunking.py);                     *)
(*   - process_job / download_file_from_minio (main.py), the queue         *)
(*     callback that drives the generator and answers the delivery.        *)
(*                                                                         *)
(* Two specifications are defined over the same generator actions:         *)
(*   SpecParser : the generator alone, driven by a plain `for` loop, for   *)
(*                every document size and every batch_size in the bounds;  *)
(*   Spec       : the worker, where process_job calls the generator with   *)
(*                its default batch_size.                                  *)
(***************************************************************************)
EXTENDS Integers, Sequences, FiniteSets, TLC

\* ---------------------------------------------------------------- bounds
MaxPages == 5          \* SpecParser: documents of 1..MaxPages pages
MaxBatchSize == 5      \* SpecParser: batch_size in 1..MaxBatchSize
MaxDocPages == 21      \* Spec: documents of 1..MaxDocPages pages
MaxJobs == 1           \* Spec: deliveries per run
MaxInferFail == 1      \* failing inference calls per generator run
MaxBatchLen == 2       \* SpecChunker: batches of 1..MaxBatchLen pages
MaxMsgs == 3           \* SpecQueue: messages published to the queue
NumWorkers == 2        \* SpecQueue: competing worker processes

\* ------------------------------------------------------ program constants
DefaultBatchSize == 10
DefaultDpi == 150
PrefixLen == 50        \* chunk_text[:50]

\* channel.basic_qos(prefetch_count=1)
PrefetchCount == 1

\* ------------------------------------------------------------ value model
None == [t |-> "None"]
EmptyBytes == [t |-> "bytes", empty |-> TRUE, readable |-> FALSE, pages |-> 0]

\* A non-empty byte buffer: either a PDF of `n` pages or bytes pdfinfo rejects.
PdfBytes(n) == [t |-> "bytes", empty |-> FALSE, readable |-> TRUE, pages |-> n]
GarbageBytes == [t |-> "bytes", empty |-> FALSE, readable |-> FALSE, pages |-> 0]

\* Variant of Falsy: an `is None` test instead of `not`.
Falsy_NoneOnly(v) == v.t = "None"

\* Python truthiness of the values process_job tests with `not`.
Falsy(v) ==
    \/ v.t = "None"
    \/ v.t = "bytes" /\ v.empty
    \/ v.t = "string" /\ v.s = ""
    \/ v.t = "number" /\ v.n = 0
    \/ v.t = "array"

Min(a, b) == IF a < b THEN a ELSE b

\* range(1, total + 1, step) as the sequence of its values.
RECURSIVE RangeFrom(_, _, _)
RangeFrom(start, total, step) ==
    IF start > total THEN <<>>
    ELSE <<start>> \o RangeFrom(start + step, total, step)

\* -------------------------------------------------------------- variables
VARIABLES
    \* generator frame of parse_pdf_in_batches
    gpc,            \* position of the generator
    pdf_arg,        \* pdf_bytes argument
    source_name,    \* source_name argument
    batch_size,     \* batch_size argument
    total_pages,    \* info["Pages"]
    start_page,     \* loop variable
    end_page,
    images,         \* page images returned by convert_from_bytes
    batch_results,
    \* observation of the generator
    infer_fails,    \* inference calls of this run that hit the except branch
    yielded,        \* batches yielded so far, in order
    renders,        \* <<first_page, last_page>> of every convert_from_bytes call
    \* process_job frame and the queue
    pc,
    tag,            \* delivery tag of the current delivery
    body,
    object_name,
    pdf_bytes,
    batch,          \* loop variable of the `for batch in ...`
    total_chunks,
    chunks,         \* what the last chunk_batch call returned
    produced,       \* chunks returned by chunk_batch during this delivery
    counts,         \* len(chunks) of every chunk_batch call of this delivery
    split_mode,     \* what the splitters did in the last chunk_batch call
    caught,            \* the exception that reached an except clause, or "none"
    downloads,      \* calls of download_file_from_minio during this delivery
    responses,      \* queue responses issued so far
    \* the worker process (main, init_services)
    mpc,            \* position of main()
    services,       \* the module globals minio_client, pdf_parser, chunker
    \* the queue shared by competing workers
    broker,
    wk

genvars == <<gpc, pdf_arg, source_name, batch_size, total_pages, start_page,
             end_page, images, batch_results, infer_fails, yielded, renders>>
procvars == <<mpc, services>>
queuevars == <<broker, wk>>
envvars == <<mpc, services, broker, wk>>
\* the process_job frame but for the loop variable
jobrest == <<pc, tag, body, object_name, pdf_bytes, total_chunks, chunks,
             produced, counts, split_mode, caught, downloads, responses>>
\* everything outside the generator frame
jobvars == <<pc, tag, body, object_name, pdf_bytes, batch, total_chunks,
             chunks, produced, counts, split_mode, caught, downloads, responses,
             mpc, services, broker, wk>>
vars == <<gpc, pdf_arg, source_name, batch_size, total_pages, start_page,
          end_page, images, batch_results, infer_fails, yielded, renders,
          pc, tag, body, object_name, pdf_bytes, batch, total_chunks,
          chunks, produced, counts, split_mode, caught, downloads, responses,
          mpc, services, broker, wk>>

\* ------------------------------------------- parse_pdf_in_batches, pieces
\* pdfinfo_from_bytes(pdf_bytes)["Pages"]: the page count, or an exception.
PdfInfoOk(b) == b.t = "bytes" /\ b.readable

\* end_page = min(start_page + batch_size, total_pages)
EndPage(sp, bs, tp) == Min(sp + bs, tp)

\* convert_from_bytes(first_page=f, last_page=l): one image per page f..l,
\* both ends included; an image is represented by the page it shows.
ConvertFromBytes(f, l) == [k \in 1..(l - f + 1) |-> f + k - 1]

\* The dict appended for a transcribed page.
PageRecord(page, text, src, tp, dpi) ==
    [page_num |-> page,
     text |-> text,
     metadata |-> [source |-> src, total_pages |-> tp, processed_at_dpi |-> dpi]]

\* Variant of ErrorRecord: the message is logged but not put in the dict.
ErrorRecord_NoError(sp, msg) == [page_num |-> sp]

\* The dict yielded by the except branch of a window.
ErrorRecord(sp, msg) == [page_num |-> sp, error |-> msg]

\* Texts are sequences of characters; "" is <<>>.
Whitespace == {" ", "\n", "\t"}

\* "# T\nb": a level-1 header line and one line of body.
MdText == <<"#", " ", "T", "\n", "b">>

\* What _run_inference can return: the stripped model output, or "" from
\* its except branch.
OkTexts == {MdText}
ErrMsgs == {"Unable to render pages."}

\* The state of the generator variables while no generator object exists.
GenNone ==
    /\ gpc = "none"
    /\ pdf_arg = None
    /\ source_name = ""
    /\ batch_size = 0
    /\ total_pages = 0
    /\ start_page = 0
    /\ end_page = 0
    /\ images = <<>>
    /\ batch_results = <<>>
    /\ infer_fails = 0
    /\ yielded = <<>>
    /\ renders = <<>>

\* A generator object exists and is suspended (or not yet started).
GenSuspended == gpc \in {"created", "yielded", "yielded_err"}
GenRunning == gpc \in {"pdfinfo", "loop", "convert", "infer"}

\* Calling parse_pdf_in_batches(b, src, bs, dpi): builds the generator
\* object, runs none of its body.
GenCreate(b, src, bs) ==
    /\ gpc' = "created"
    /\ pdf_arg' = b
    /\ source_name' = src
    /\ batch_size' = bs
    /\ total_pages' = 0
    /\ start_page' = 0
    /\ end_page' = 0
    /\ images' = <<>>
    /\ batch_results' = <<>>
    /\ infer_fails' = 0
    /\ yielded' = <<>>
    /\ renders' = <<>>

\* Variant of GenResume: the try statement wraps the whole loop, so the
\* generator returns after the except branch has yielded.
GenResume_ReturnAfterError ==
    /\ GenSuspended
    /\ IF gpc = "created"
       THEN /\ gpc' = "pdfinfo"
            /\ start_page' = start_page
       ELSE IF gpc = "yielded_err"
       THEN /\ gpc' = "finished"
            /\ start_page' = total_pages + 1
       ELSE /\ gpc' = "loop"
            /\ start_page' = start_page + batch_size
    /\ UNCHANGED <<pdf_arg, source_name, batch_size, total_pages, end_page,
                   images, batch_results, infer_fails, yielded, renders>>

\* next(generator): control enters the generator body.
GenResume ==
    /\ GenSuspended
    /\ IF gpc = "created"
       THEN /\ gpc' = "pdfinfo"
            /\ start_page' = start_page
       ELSE \* the range iterator steps by batch_size
            /\ gpc' = "loop"
            /\ start_page' = start_page + batch_size
    /\ UNCHANGED <<pdf_arg, source_name, batch_size, total_pages, end_page,
                   images, batch_results, infer_fails, yielded, renders>>

\* ------------------------------------------ parse_pdf_in_batches, actions
\* Lines 73-79: read the page count or raise ValueError("Invalid PDF file").
GenPdfInfo ==
    /\ gpc = "pdfinfo"
    /\ IF PdfInfoOk(pdf_arg)
       THEN /\ total_pages' = pdf_arg.pages
            /\ start_page' = 1
            /\ gpc' = "loop"
       ELSE /\ gpc' = "raised"
            /\ UNCHANGED <<total_pages, start_page>>
    /\ UNCHANGED <<pdf_arg, source_name, batch_size, end_page, images,
                   batch_results, infer_fails, yielded, renders>>
    /\ UNCHANGED jobvars

\* Line 83-89: the for statement over range(1, total_pages + 1, batch_size).
GenLoopHead ==
    /\ gpc = "loop"
    /\ IF start_page < total_pages + 1
       THEN /\ end_page' = EndPage(start_page, batch_size, total_pages)
            /\ batch_results' = <<>>
            /\ gpc' = "convert"
       ELSE \* range exhausted: "PDF Stream Complete.", StopIteration
            /\ gpc' = "finished"
            /\ UNCHANGED <<end_page, batch_results>>
    /\ UNCHANGED <<pdf_arg, source_name, batch_size, total_pages, start_page,
                   images, infer_fails, yielded, renders>>
    /\ UNCHANGED jobvars

\* Lines 94-100: convert_from_bytes returns the images of the window.
GenConvert ==
    /\ gpc = "convert"
    /\ images' = ConvertFromBytes(start_page, end_page)
    /\ renders' = Append(renders, <<start_page, end_page>>)
    /\ gpc' = "infer"
    /\ UNCHANGED <<pdf_arg, source_name, batch_size, total_pages, start_page,
                   end_page, batch_results, infer_fails, yielded>>
    /\ UNCHANGED jobvars

\* Lines 94-100 raise, lines 133-136: the except branch yields one dict.
GenConvertFails ==
    /\ gpc = "convert"
    /\ renders' = Append(renders, <<start_page, end_page>>)
    /\ \E msg \in ErrMsgs :
          yielded' = Append(yielded, <<ErrorRecord(start_page, msg)>>)
    /\ batch' = yielded'[Len(yielded')]
    /\ gpc' = "yielded_err"
    /\ UNCHANGED <<pdf_arg, source_name, batch_size, total_pages, start_page,
                   end_page, images, batch_results, infer_fails>>
    /\ UNCHANGED <<jobrest, envvars>>

\* Variant of GenInfer: _run_inference has no try/except, so a failing
\* inference call reaches the except branch of the window.
GenInfer_Propagates ==
    /\ gpc = "infer"
    /\ Len(batch_results) < Len(images)
    /\ LET i == Len(batch_results)
           current_page_num == start_page + i
       IN  \/ \E text \in OkTexts :
                /\ batch_results' = Append(batch_results,
                       PageRecord(current_page_num, text, source_name,
                                  total_pages, DefaultDpi))
                /\ UNCHANGED <<infer_fails, gpc, yielded, batch>>
           \/ /\ infer_fails < MaxInferFail
              /\ infer_fails' = infer_fails + 1
              /\ \E msg \in ErrMsgs :
                    yielded' = Append(yielded, <<ErrorRecord(start_page, msg)>>)
              /\ batch' = yielded'[Len(yielded')]
              /\ gpc' = "yielded_err"
              /\ UNCHANGED batch_results
    /\ UNCHANGED <<pdf_arg, source_name, batch_size, total_pages,
                   start_page, end_page, images, renders>>
    /\ UNCHANGED <<jobrest, envvars>>

\* Lines 103-123: one iteration of `for i, image in enumerate(images)`.
GenInfer ==
    /\ gpc = "infer"
    /\ Len(batch_results) < Len(images)
    /\ LET i == Len(batch_results)
           current_page_num == start_page + i
       IN  \/ \E text \in OkTexts :
                /\ batch_results' = Append(batch_results,
                       PageRecord(current_page_num, text, source_name,
                                  total_pages, DefaultDpi))
                /\ UNCHANGED infer_fails
           \/ \* _run_inference caught an exception and returned ""
              /\ infer_fails < MaxInferFail
              /\ batch_results' = Append(batch_results,
                     PageRecord(current_page_num, <<>>, source_name,
                                total_pages, DefaultDpi))
              /\ infer_fails' = infer_fails + 1
    /\ UNCHANGED <<gpc, pdf_arg, source_name, batch_size, total_pages,
                   start_page, end_page, images, yielded, renders>>
    /\ UNCHANGED jobvars

\* Variant of GenYield: the `del images` before the yield is missing.
GenYield_KeepImages ==
    /\ gpc = "infer"
    /\ Len(batch_results) = Len(images)
    /\ yielded' = Append(yielded, batch_results)
    /\ batch' = batch_results
    /\ gpc' = "yielded"
    /\ UNCHANGED <<pdf_arg, source_name, batch_size, total_pages, start_page,
                   end_page, images, batch_results, infer_fails, renders>>
    /\ UNCHANGED <<jobrest, envvars>>

\* Lines 125-131: del images; gc.collect(); yield batch_results.
GenYield ==
    /\ gpc = "infer"
    /\ Len(batch_results) = Len(images)
    /\ images' = <<>>
    /\ yielded' = Append(yielded, batch_results)
    /\ batch' = batch_results
    /\ gpc' = "yielded"
    /\ UNCHANGED <<pdf_arg, source_name, batch_size, total_pages, start_page,
                   end_page, batch_results, infer_fails, renders>>
    /\ UNCHANGED <<jobrest, envvars>>


\* ------------------------------------------------ DocumentChunker (pieces)
\* dict.get(key, default) on a record used as a dict.
Get(d, k, default) == IF k \in DOMAIN d THEN d[k] ELSE default

\* str.strip(): leading and trailing whitespace removed.
RECURSIVE LStrip(_)
LStrip(s) ==
    IF s # <<>> /\ Head(s) \in Whitespace THEN LStrip(Tail(s)) ELSE s

RECURSIVE RStrip(_)
RStrip(s) ==
    IF s # <<>> /\ s[Len(s)] \in Whitespace
    THEN RStrip(SubSeq(s, 1, Len(s) - 1)) ELSE s

Strip(s) == RStrip(LStrip(s))

\* Variant of IsBlank: `if not text` without the strip().
IsBlank_EmptyOnly(text) == text = <<>>

\* not text.strip(): the text is empty or whitespace only.
IsBlank(text) == Strip(text) = <<>>

\* s[:n]
Take(s, n) == SubSeq(s, 1, Min(n, Len(s)))

\* str.split("\n")
RECURSIVE SplitLines(_)
SplitLines(s) ==
    IF \A k \in 1..Len(s) : s[k] # "\n" THEN <<s>>
    ELSE LET k == CHOOSE j \in 1..Len(s) :
                     s[j] = "\n" /\ \A i \in 1..(j - 1) : s[i] # "\n"
         IN  <<SubSeq(s, 1, k - 1)>> \o SplitLines(SubSeq(s, k + 1, Len(s)))

\* "\n".join(lines)
RECURSIVE JoinLines(_)
JoinLines(ls) ==
    IF ls = <<>> THEN <<>>
    ELSE IF Len(ls) = 1 THEN ls[1]
    ELSE ls[1] \o <<"\n">> \o JoinLines(Tail(ls))

\* A langchain Document.
Document(content, meta) == [page_content |-> content, metadata |-> meta]

\* The level (1..3) of a Markdown header line "# x", "## x", "### x"; 0 for
\* any other line.  headers_to_split_on of __init__.
HeaderLevel(line) ==
    IF Len(line) >= 2 /\ line[1] = "#" /\ line[2] = " " THEN 1
    ELSE IF Len(line) >= 3 /\ line[1] = "#" /\ line[2] = "#" /\ line[3] = " "
    THEN 2
    ELSE IF Len(line) >= 4 /\ line[1] = "#" /\ line[2] = "#" /\ line[3] = "#"
            /\ line[4] = " "
    THEN 3
    ELSE 0

HeaderKey(level) ==
    CASE level = 1 -> "Header 1" [] level = 2 -> "Header 2" [] OTHER -> "Header 3"

\* The header path after a header line of `level` titled `title`: deeper
\* and equal levels are dropped, the new one is set.
PushHeader(path, level, title) ==
    LET kept == {k \in DOMAIN path :
                    \E l \in 1..(level - 1) : k = HeaderKey(l)}
    IN  (HeaderKey(level) :> title) @@ [k \in kept |-> path[k]]

\* One pass over the stripped, non-empty lines: `cur` collects the lines of
\* the open section, `path` is its header path, `out` the closed sections.
RECURSIVE HeaderScan(_, _, _, _)
HeaderScan(lines, cur, path, out) ==
    LET flush == IF cur = <<>> THEN out
                 ELSE Append(out, Document(JoinLines(cur), path))
    IN  IF lines = <<>> THEN flush
        ELSE LET line == Strip(Head(lines))
                 level == HeaderLevel(line)
             IN  IF line = <<>>
                 THEN HeaderScan(Tail(lines), cur, path, out)
                 ELSE IF level > 0
                 THEN HeaderScan(Tail(lines), <<line>>,
                          PushHeader(path, level,
                                     Strip(SubSeq(line, level + 1, Len(line)))),
                          flush)
                 ELSE HeaderScan(Tail(lines), Append(cur, line), path, out)

\* MarkdownHeaderTextSplitter.split_text with strip_headers=False: the
\* sections of the text along its level 1-3 headers, each with its header
\* path, the header line kept in the section.
HeaderSplit(text) == HeaderScan(SplitLines(text), <<>>, <<>>, <<>>)

\* SemanticChunker.split_documents: where the breakpoints fall is decided by
\* the embedding distances, which the model leaves open: `sem` = "keep"
\* puts no breakpoint in any document, "lines" puts one at every line end.
\* The metadata of a document is copied to its pieces.
RECURSIVE SemanticSplit(_, _)
SemanticSplit(docs, sem) ==
    IF docs = <<>> THEN <<>>
    ELSE LET d == Head(docs)
             ls == SplitLines(d.page_content)
             pieces == IF sem = "keep" THEN <<d>>
                       ELSE [k \in 1..Len(ls) |-> Document(ls[k], d.metadata)]
         IN  pieces \o SemanticSplit(Tail(docs), sem)

\* The outcomes of one call of the semantic splitter.
SemOutcomes == {"keep", "lines", "raise"}

\* split_mode before any chunk_batch call.
NoSplit == [hfail |-> FALSE, sem |-> "none"]

\* hashlib.md5(...).hexdigest(): the digest is represented by the string it
\* is taken of, so that equal digests mean equal strings.
Md5(raw) == raw

\* Variant of GenerateChunkId: the whole chunk text is hashed.
GenerateChunkId_WholeText(source, page, chunk_text) ==
    Md5(<<source, "-p", page, "-", chunk_text>>)

\* _generate_chunk_id: md5 of f"{source}-p{page}-{chunk_text[:50]}".
GenerateChunkId(source, page, chunk_text) ==
    Md5(<<source, "-p", page, "-", Take(chunk_text, PrefixLen)>>)

\* The chunk dict built by STEP C for one split of a page.
MakeChunk(split, page_num, original_metadata, source_file) ==
    [id |-> GenerateChunkId(source_file, page_num, split.page_content),
     text |-> split.page_content,
     metadata |-> ("page_num" :> page_num)
                  @@ ("chunk_strategy" :> "semantic")
                  @@ split.metadata
                  @@ original_metadata]

\* Variant of FinalSplits: the fallback of STEP B is an empty list.
FinalSplits_DropOnFail(text, hfail, sem) ==
    LET header_splits == IF hfail THEN <<Document(text, <<>>)>>
                         ELSE HeaderSplit(text)
    IN  IF sem = "raise" THEN <<>>
        ELSE SemanticSplit(header_splits, sem)

\* STEP A and STEP B for one page text.
\* hfail: the header splitter raised; sem: what the semantic splitter did.
FinalSplits(text, hfail, sem) ==
    LET header_splits == IF hfail THEN <<Document(text, <<>>)>>
                         ELSE HeaderSplit(text)
    IN  IF sem = "raise" THEN header_splits
        ELSE SemanticSplit(header_splits, sem)

\* Variant of PageChunks: the `if not text.strip(): continue` is missing.
PageChunks_NoSkip(page_data, hfail, sem) ==
    LET text == Get(page_data, "text", <<>>)
        page_num == Get(page_data, "page_num", 0)
        original_metadata == Get(page_data, "metadata", <<>>)
        source_file == Get(original_metadata, "source", "unknown_file")
        final_splits == FinalSplits(text, hfail, sem)
    IN  [k \in 1..Len(final_splits) |->
            MakeChunk(final_splits[k], page_num, original_metadata,
                      source_file)]

\* Lines 60-98 for one page: the chunks of one page_data.
PageChunks(page_data, hfail, sem) ==
    LET text == Get(page_data, "text", <<>>)
        page_num == Get(page_data, "page_num", 0)
        original_metadata == Get(page_data, "metadata", <<>>)
        source_file == Get(original_metadata, "source", "unknown_file")
        final_splits == FinalSplits(text, hfail, sem)
    IN  IF IsBlank(text) THEN <<>>
        ELSE [k \in 1..Len(final_splits) |->
                MakeChunk(final_splits[k], page_num, original_metadata,
                          source_file)]

\* chunk_batch: the concatenation of the chunks of the pages, in order.
RECURSIVE chunk_batch(_, _, _)
chunk_batch(batch_in, hfail, sem) ==
    IF batch_in = <<>> THEN <<>>
    ELSE PageChunks(Head(batch_in), hfail, sem)
         \o chunk_batch(Tail(batch_in), hfail, sem)

\* ------------------------------------------------------- main.py (pieces)
\* The message bodies a delivery can carry.
JStr(x) == [t |-> "string", s |-> x]
JNull == [t |-> "None"]
JNum(x) == [t |-> "number", n |-> x]
JArr == [t |-> "array"]
JObj(f) == [t |-> "object", fields |-> f]

ObjectKey == "docs/report.pdf"

Bodies ==
    { [kind |-> "bad_utf8"],            \* bytes that are no text at all
      [kind |-> "not_json"],            \* text that is no JSON document
      [kind |-> "json", val |-> JNull],
      [kind |-> "json", val |-> JNum(7)],
      [kind |-> "json", val |-> JStr("docs/report.pdf")],
      [kind |-> "json", val |-> JArr],
      [kind |-> "json", val |-> JObj(<<>>)],
      [kind |-> "json", val |-> JObj([bucket |-> JStr("docs")])],
      [kind |-> "json", val |-> JObj([key |-> JStr("")])],
      [kind |-> "json", val |-> JObj([key |-> JNull])],
      [kind |-> "json", val |-> JObj([key |-> JStr(ObjectKey)])],
      [kind |-> "json", val |-> JObj([bucket |-> JStr("docs"),
                                      key |-> JStr(ObjectKey)])] }

\* json.loads(body): the value, or the exception it raises.
JsonLoads(b) ==
    CASE b.kind = "bad_utf8" -> [ok |-> FALSE, exc |-> "UnicodeDecodeError"]
      [] b.kind = "not_json" -> [ok |-> FALSE, exc |-> "JSONDecodeError"]
      [] OTHER -> [ok |-> TRUE, val |-> b.val]

\* job_data.get(k): AttributeError unless job_data is a dict.
HasGet(v) == v.t = "object"
DictGet(v, k) == IF k \in DOMAIN v.fields THEN v.fields[k] ELSE None

\* os.path.basename(object_name)
Basename(k) == IF k = "docs/report.pdf" THEN "report.pdf" ELSE k

\* What download_file_from_minio can return: None after an exception, or
\* the bytes of the object.
DownloadResults ==
    {None, EmptyBytes, GarbageBytes} \cup {PdfBytes(n) : n \in 1..MaxDocPages}

Ack(dt) == [tag |-> dt, op |-> "ack"]
Nack(dt, rq) == [tag |-> dt, op |-> "nack", requeue |-> rq]

\* Variant of Handler: the first clause reads `except ValueError`, the base
\* class of JSONDecodeError and UnicodeDecodeError.
Handler_ValueError(e) ==
    IF e \in {"JSONDecodeError", "UnicodeDecodeError", "ValueError"}
    THEN "ack" ELSE "nack"

\* Which handler of process_job's try statement takes an exception.
Handler(e) == IF e = "JSONDecodeError" THEN "ack" ELSE "nack"

\* Variant of ExceptResponse: the catch-all clause rejects with requeue=True.
ExceptResponse_Requeue(dt, e) ==
    IF Handler(e) = "ack" THEN Ack(dt) ELSE Nack(dt, TRUE)

\* The response of the except clauses to an exception raised in the try body.
ExceptResponse(dt, e) ==
    IF Handler(e) = "ack" THEN Ack(dt) ELSE Nack(dt, FALSE)

\* ------------------------------------------------- main, init_services
\* Variant of InitExits: a model that fails to load is logged, the worker
\* goes on without it.
InitExits_ModelsLogged(f) == f \in {"minio", "embedding"}

\* Where init_services can fail: nowhere, in Minio(...), in
\* HuggingFaceEmbeddings(...), in VisionPDFParser(...) (missing files or
\* "Model initialization failed"), in DocumentChunker(...).
InitFailures == {"none", "minio", "embedding", "parser", "chunker"}

\* Every except clause of init_services ends in sys.exit(1).
InitExits(f) == f # "none"

NoServices == [minio_client |-> "None", pdf_parser |-> "None", chunker |-> "None"]

\* The globals assigned before init_services fails at f.
ServicesAfter(f) ==
    [minio_client |-> IF f = "minio" THEN "None" ELSE "ready",
     pdf_parser |-> IF f \in {"none", "chunker"} THEN "ready" ELSE "None",
     chunker |-> IF f = "none" THEN "ready" ELSE "None"]

\* Lines 158-161: the environment check of main().
MainCheckEnv ==
    /\ mpc = "start"
    /\ \E env_ok \in BOOLEAN :
          mpc' = IF env_ok THEN "init" ELSE "exited"
    /\ UNCHANGED <<services, queuevars, genvars, batch, jobrest>>

\* Lines 44-89 and 164: init_services().
InitServices ==
    /\ mpc = "init"
    /\ \E f \in InitFailures :
          /\ services' = ServicesAfter(f)
          /\ mpc' = IF InitExits(f) THEN "exited" ELSE "connect"
    /\ UNCHANGED <<queuevars, genvars, batch, jobrest>>

\* Lines 166-186: connect, declare the queue, basic_qos(prefetch_count=1),
\* basic_consume, start_consuming; AMQPConnectionError exits.
MainConnect ==
    /\ mpc = "connect"
    /\ \E connected \in BOOLEAN :
          mpc' = IF connected THEN "consuming" ELSE "exited"
    /\ UNCHANGED <<services, queuevars, genvars, batch, jobrest>>

\* --------------------------------------------------- process_job, actions
\* start_consuming hands the next message to the callback: a new
\* process_job frame, no generator yet.
Deliver ==
    /\ mpc = "consuming"
    /\ pc = "idle"
    /\ tag < MaxJobs
    /\ tag' = tag + 1
    /\ \E b \in Bodies : body' = b
    /\ pc' = "loads"
    /\ object_name' = None
    /\ pdf_bytes' = None
    /\ batch' = <<>>
    /\ total_chunks' = 0
    /\ chunks' = <<>>
    /\ produced' = 0
    /\ counts' = <<>>
    /\ split_mode' = NoSplit
    /\ caught' = "none"
    /\ downloads' = 0
    /\ gpc' = "none"
    /\ pdf_arg' = None
    /\ source_name' = ""
    /\ batch_size' = 0
    /\ total_pages' = 0
    /\ start_page' = 0
    /\ end_page' = 0
    /\ images' = <<>>
    /\ batch_results' = <<>>
    /\ infer_fails' = 0
    /\ yielded' = <<>>
    /\ renders' = <<>>
    /\ UNCHANGED <<responses, envvars>>

\* Variant of ParseJob: the `return` after the acknowledgment of a job
\* without a key is missing.
ParseJob_NoReturn ==
    /\ pc = "loads"
    /\ LET r == JsonLoads(body)
       IN  IF ~r.ok
           THEN /\ responses' = Append(responses, ExceptResponse(tag, r.exc))
                /\ caught' = r.exc
                /\ pc' = "idle"
                /\ UNCHANGED object_name
           ELSE IF ~HasGet(r.val)
           THEN /\ responses' = Append(responses,
                                       ExceptResponse(tag, "AttributeError"))
                /\ caught' = "AttributeError"
                /\ pc' = "idle"
                /\ UNCHANGED object_name
           ELSE IF Falsy(DictGet(r.val, "key"))
           THEN /\ responses' = Append(responses, Ack(tag))
                /\ pc' = "download"
                /\ object_name' = DictGet(r.val, "key")
                /\ UNCHANGED caught
           ELSE /\ object_name' = DictGet(r.val, "key")
                /\ pc' = "download"
                /\ UNCHANGED <<responses, caught>>
    /\ UNCHANGED <<tag, body, pdf_bytes, batch, total_chunks, chunks,
                   produced, counts, split_mode, downloads>>
    /\ UNCHANGED <<genvars, envvars>>

\* Lines 108-117 (and the except clauses for what they raise): decode the
\* body, read "key", acknowledge a job without a key.
ParseJob ==
    /\ pc = "loads"
    /\ LET r == JsonLoads(body)
       IN  IF ~r.ok
           THEN /\ responses' = Append(responses, ExceptResponse(tag, r.exc))
                /\ caught' = r.exc
                /\ pc' = "idle"
                /\ UNCHANGED object_name
           ELSE IF ~HasGet(r.val)
           THEN /\ responses' = Append(responses,
                                       ExceptResponse(tag, "AttributeError"))
                /\ caught' = "AttributeError"
                /\ pc' = "idle"
                /\ UNCHANGED object_name
           ELSE IF Falsy(DictGet(r.val, "key"))
           THEN /\ responses' = Append(responses, Ack(tag))
                /\ pc' = "idle"
                /\ object_name' = DictGet(r.val, "key")
                /\ UNCHANGED caught
           ELSE /\ object_name' = DictGet(r.val, "key")
                /\ pc' = "download"
                /\ UNCHANGED <<responses, caught>>
    /\ UNCHANGED <<tag, body, pdf_bytes, batch, total_chunks, chunks,
                   produced, counts, split_mode, downloads>>
    /\ UNCHANGED <<genvars, envvars>>

\* Lines 119-134: download; reject when nothing came back; otherwise set
\* up the loop over pdf_parser.parse_pdf_in_batches(pdf_bytes, filename).
Download ==
    /\ pc = "download"
    /\ downloads' = downloads + 1
    /\ \E d \in DownloadResults :
          /\ pdf_bytes' = d
          /\ IF Falsy(d)
             THEN /\ responses' = Append(responses, Nack(tag, FALSE))
                  /\ pc' = "idle"
                  /\ UNCHANGED <<total_chunks, genvars>>
             ELSE /\ total_chunks' = 0
                  /\ GenCreate(d, Basename(object_name.s), DefaultBatchSize)
                  /\ pc' = "for"
                  /\ UNCHANGED responses
    /\ UNCHANGED <<tag, body, object_name, batch, chunks, produced, counts,
                   split_mode, caught>>
    /\ UNCHANGED envvars

\* Line 134: the for statement asks the generator for its next batch.
ForNext ==
    /\ pc = "for"
    /\ GenResume
    /\ pc' = "next"
    /\ UNCHANGED <<tag, body, object_name, pdf_bytes, batch, total_chunks,
                   chunks, produced, counts, split_mode, caught, downloads, responses>>
    /\ UNCHANGED envvars

\* Lines 137-143: the loop body on the batch the generator yielded.
ChunkBatch ==
    /\ pc = "next"
    /\ gpc \in {"yielded", "yielded_err"}
    /\ \E hfail \in BOOLEAN, sem \in SemOutcomes :
          LET result == chunk_batch(batch, hfail, sem)
              count == Len(result)
          IN  /\ chunks' = result
              /\ total_chunks' = total_chunks + count
              /\ produced' = produced + count
              /\ counts' = Append(counts, count)
              /\ split_mode' = [hfail |-> hfail, sem |-> sem]
    /\ pc' = "for"
    /\ UNCHANGED <<tag, body, object_name, pdf_bytes, batch, caught, downloads,
                   responses>>
    /\ UNCHANGED <<genvars, envvars>>

\* Line 137 raises: an exception escapes chunk_batch and reaches line 153.
ChunkBatchRaises ==
    /\ pc = "next"
    /\ gpc \in {"yielded", "yielded_err"}
    /\ responses' = Append(responses, ExceptResponse(tag, "RuntimeError"))
    /\ caught' = "RuntimeError"
    /\ pc' = "idle"
    /\ UNCHANGED <<tag, body, object_name, pdf_bytes, batch, total_chunks,
                   chunks, produced, counts, split_mode, downloads>>
    /\ UNCHANGED <<genvars, envvars>>

\* The generator raised ValueError("Invalid PDF file") into line 134.
ParserRaises ==
    /\ pc = "next"
    /\ gpc = "raised"
    /\ responses' = Append(responses, ExceptResponse(tag, "ValueError"))
    /\ caught' = "ValueError"
    /\ pc' = "idle"
    /\ UNCHANGED <<tag, body, object_name, pdf_bytes, batch, total_chunks,
                   chunks, produced, counts, split_mode, downloads>>
    /\ UNCHANGED <<genvars, envvars>>

\* Variant of JobComplete: the acknowledgment sits inside the loop body.
JobComplete_InLoop ==
    /\ pc = "next"
    /\ gpc \in {"finished", "yielded", "yielded_err"}
    /\ responses' = Append(responses, Ack(tag))
    /\ pc' = "idle"
    /\ UNCHANGED <<tag, body, object_name, pdf_bytes, batch, total_chunks,
                   chunks, produced, counts, split_mode, caught, downloads>>
    /\ UNCHANGED <<genvars, envvars>>

\* Lines 145-148: the generator is exhausted, the job is acknowledged.
JobComplete ==
    /\ pc = "next"
    /\ gpc = "finished"
    /\ responses' = Append(responses, Ack(tag))
    /\ pc' = "idle"
    /\ UNCHANGED <<tag, body, object_name, pdf_bytes, batch, total_chunks,
                   chunks, produced, counts, split_mode, caught, downloads>>
    /\ UNCHANGED <<genvars, envvars>>

\* ------------------------------------------------------------ the worker
\* The process_job variables while no message has been delivered.
FrameIdle ==
    /\ tag = 0
    /\ body = [kind |-> "none"]
    /\ object_name = None
    /\ pdf_bytes = None
    /\ batch = <<>>
    /\ total_chunks = 0
    /\ chunks = <<>>
    /\ produced = 0
    /\ counts = <<>>
    /\ split_mode = NoSplit
    /\ caught = "none"
    /\ downloads = 0
    /\ responses = <<>>

\* The queue variables while no queue is modelled.
QueueIdle ==
    /\ broker = [ready |-> <<>>, published |-> 0, acked |-> {}, dead |-> {}]
    /\ wk = <<>>

Init ==
    /\ mpc = "start"
    /\ services = NoServices
    /\ pc = "idle"
    /\ FrameIdle
    /\ GenNone
    /\ QueueIdle

Next ==
    \/ MainCheckEnv
    \/ InitServices
    \/ MainConnect
    \/ Deliver
    \/ ParseJob
    \/ Download
    \/ ForNext
    \/ GenPdfInfo
    \/ GenLoopHead
    \/ GenConvert
    \/ GenConvertFails
    \/ GenInfer
    \/ GenYield
    \/ ChunkBatch
    \/ ChunkBatchRaises
    \/ ParserRaises
    \/ JobComplete

Spec == Init /\ [][Next]_vars

\* ------------------------------------------------ the generator on its own
\* for batch in parser.parse_pdf_in_batches(pdf_bytes, source, batch_size):
\*     pass
Consume ==
    /\ pc = "harness"
    /\ GenResume
    /\ UNCHANGED jobvars

InitParser ==
    /\ mpc = "harness"
    /\ services = ServicesAfter("none")
    /\ pc = "harness"
    /\ FrameIdle
    /\ QueueIdle
    /\ gpc = "created"
    /\ pdf_arg \in {GarbageBytes} \cup {PdfBytes(n) : n \in 1..MaxPages}
    /\ source_name = "report.pdf"
    /\ batch_size \in 1..MaxBatchSize
    /\ total_pages = 0
    /\ start_page = 0
    /\ end_page = 0
    /\ images = <<>>
    /\ batch_results = <<>>
    /\ infer_fails = 0
    /\ yielded = <<>>
    /\ renders = <<>>

NextParser ==
    \/ Consume
    \/ GenPdfInfo
    \/ GenLoopHead
    \/ GenConvert
    \/ GenConvertFails
    \/ GenInfer
    \/ GenYield

SpecParser == InitParser /\ [][NextParser]_vars

\* ------------------------------------------------ chunk_batch on its own
\* A text of PrefixLen characters "a" followed by `last`.
LongText(last) == [k \in 1..(PrefixLen + 1) |->
                      IF k <= PrefixLen THEN "a" ELSE last]

\* Page texts handed to chunk_batch: empty, whitespace only, Markdown with
\* a header, and two texts that differ only after the first 50 characters.
ChunkerTexts == {<<>>, <<" ", "\n">>, MdText, LongText("x"), LongText("y")}

\* The page dicts handed to chunk_batch: transcribed pages of two documents
\* and the error dict of a failed window.
ChunkerPages ==
    {PageRecord(n, t, m[1], m[2], DefaultDpi) :
        n \in 1..2, t \in ChunkerTexts,
        m \in {<<"a.pdf", 2>>, <<"a.pdf", 9>>, <<"b.pdf", 2>>}}
    \cup {ErrorRecord(n, msg) : n \in 1..2, msg \in ErrMsgs}

ChunkerBatches ==
    UNION {[1..n -> ChunkerPages] : n \in 1..MaxBatchLen}

\* chunks = chunker.chunk_batch(batch)
ApplyChunkBatch ==
    /\ pc = "chunker"
    /\ \E hfail \in BOOLEAN, sem \in SemOutcomes :
          LET result == chunk_batch(batch, hfail, sem)
          IN  /\ chunks' = result
              /\ counts' = Append(counts, Len(result))
              /\ split_mode' = [hfail |-> hfail, sem |-> sem]
    /\ pc' = "chunked"
    /\ UNCHANGED <<tag, body, object_name, pdf_bytes, batch, total_chunks,
                   produced, caught, downloads, responses>>
    /\ UNCHANGED <<genvars, envvars>>

InitChunker ==
    /\ mpc = "harness"
    /\ services = ServicesAfter("none")
    /\ pc = "chunker"
    /\ tag = 0
    /\ body = [kind |-> "none"]
    /\ object_name = None
    /\ pdf_bytes = None
    /\ batch \in ChunkerBatches
    /\ total_chunks = 0
    /\ chunks = <<>>
    /\ produced = 0
    /\ counts = <<>>
    /\ split_mode = NoSplit
    /\ caught = "none"
    /\ downloads = 0
    /\ responses = <<>>
    /\ GenNone
    /\ QueueIdle

NextChunker == ApplyChunkBatch

SpecChunker == InitChunker /\ [][NextChunker]_vars

\* ------------------------------------------ competing workers on one queue
Workers == 1..NumWorkers

\* The responses process_job gives to a delivery (lines 116, 125, 148, 152,
\* 155): an acknowledgment, or a rejection without requeue.
ProcessJobResponses(m) == {Ack(m), Nack(m, FALSE)}

\* A producer publishes a message to the durable queue.
Publish ==
    /\ pc = "queue"
    /\ broker.published < MaxMsgs
    /\ broker' = [broker EXCEPT !.published = @ + 1,
                                !.ready = Append(@, broker.published + 1)]
    /\ UNCHANGED <<wk, procvars, genvars, batch, jobrest>>

\* Variant of BrokerDeliver: basic_qos was not called, the broker pushes
\* to a consumer whatever it already holds.
BrokerDeliver_NoQos(w) ==
    /\ pc = "queue"
    /\ broker.ready # <<>>
    /\ broker' = [broker EXCEPT !.ready = Tail(@)]
    /\ wk' = [wk EXCEPT ![w].unacked = @ \cup {Head(broker.ready)}]
    /\ UNCHANGED <<procvars, genvars, batch, jobrest>>

\* The broker pushes the head of the queue to a consumer that holds fewer
\* than prefetch_count unanswered deliveries.
BrokerDeliver(w) ==
    /\ pc = "queue"
    /\ broker.ready # <<>>
    /\ Cardinality(wk[w].unacked) < PrefetchCount
    /\ broker' = [broker EXCEPT !.ready = Tail(@)]
    /\ wk' = [wk EXCEPT ![w].unacked = @ \cup {Head(broker.ready)}]
    /\ UNCHANGED <<procvars, genvars, batch, jobrest>>

\* start_consuming calls process_job on a delivery the worker holds; the
\* loop is blocking, so not while another call is running.
CallbackStart(w) ==
    /\ pc = "queue"
    /\ wk[w].running = 0
    /\ \E m \in wk[w].unacked : wk' = [wk EXCEPT ![w].running = m]
    /\ UNCHANGED <<broker, procvars, genvars, batch, jobrest>>

\* process_job answers the delivery and returns.
CallbackEnd(w) ==
    /\ pc = "queue"
    /\ wk[w].running # 0
    /\ LET m == wk[w].running
       IN  \E r \in ProcessJobResponses(m) :
              /\ broker' = IF r.op = "ack"
                           THEN [broker EXCEPT !.acked = @ \cup {m}]
                           ELSE IF r.requeue
                           THEN [broker EXCEPT !.ready = Append(@, m)]
                           ELSE [broker EXCEPT !.dead = @ \cup {m}]
              /\ wk' = [wk EXCEPT ![w].unacked = @ \ {m}, ![w].running = 0]
    /\ UNCHANGED <<procvars, genvars, batch, jobrest>>

InitQueue ==
    /\ mpc = "consuming"
    /\ services = ServicesAfter("none")
    /\ pc = "queue"
    /\ FrameIdle
    /\ GenNone
    /\ broker = [ready |-> <<>>, published |-> 0, acked |-> {}, dead |-> {}]
    /\ wk = [w \in Workers |-> [unacked |-> {}, running |-> 0]]

NextQueue ==
    \/ Publish
    \/ \E w \in Workers : BrokerDeliver(w)
    \/ \E w \in Workers : CallbackStart(w)
    \/ \E w \in Workers : CallbackEnd(w)

SpecQueue == InitQueue /\ [][NextQueue]_vars

TypeOK ==
    /\ gpc \in {"none", "created", "pdfinfo", "loop", "convert", "infer",
                "yielded", "yielded_err", "finished", "raised"}
    /\ pc \in {"idle", "loads", "download", "for", "next", "harness",
               "chunker", "chunked", "queue"}
    /\ mpc \in {"start", "init", "connect", "consuming", "exited", "harness"}

\* ============================================================ properties
\* --------------------------------------------------------------- helpers
\* The page_num values of all PageResults yielded so far, in order.
RECURSIVE PageNumsOf(_)
PageNumsOf(batches) ==
    IF batches = <<>> THEN <<>>
    ELSE [k \in 1..Len(Head(batches)) |-> Head(batches)[k].page_num]
         \o PageNumsOf(Tail(batches))

IsErrorBatch(b) == Len(b) >= 1 /\ "error" \in DOMAIN b[1]
NoWindowFailed == \A k \in 1..Len(yielded) : ~IsErrorBatch(yielded[k])
StreamDone == gpc = "finished"

\* ceil(n / w) for w >= 1
CeilDiv(n, w) == (n + w - 1) \div w

\* The start pages of the windows of an n-page document.
WindowStarts == RangeFrom(1, total_pages, batch_size)

\* C1: with no failing window, the page numbers yielded over the whole
\* document are exactly 1..total_pages, each emitted exactly once.
C1_PagesExactlyOnce ==
    (StreamDone /\ NoWindowFailed) =>
        LET nums == PageNumsOf(yielded)
        IN  /\ Len(nums) = total_pages
            /\ {nums[k] : k \in 1..Len(nums)} = 1..total_pages

\* C2: an N-page document with window size W gives ceil(N/W) batches, all
\* but the last of W PageResults, the last of N - W*(ceil(N/W)-1).
C2_WindowSizes ==
    (StreamDone /\ NoWindowFailed) =>
        LET cnt == CeilDiv(total_pages, batch_size)
        IN  /\ Len(yielded) = cnt
            /\ \A k \in 1..Len(yielded) :
                  Len(yielded[k]) = IF k < cnt
                                    THEN batch_size
                                    ELSE total_pages - batch_size * (cnt - 1)

\* C3: at most batch_size rendered images are held at any time, and no
\* call of the renderer asks for more than batch_size pages.
C3_AtMostWImages ==
    /\ Len(images) <= batch_size
    /\ \A k \in 1..Len(renders) :
          renders[k][2] - renders[k][1] + 1 <= batch_size

\* C4: the PageResults are yielded in strictly increasing page_num order,
\* within a batch and from one batch to the next.
C4_StrictlyIncreasing ==
    LET nums == PageNumsOf(yielded)
    IN  \A k \in 1..(Len(nums) - 1) : nums[k] < nums[k + 1]

\* C5: a failing window never ends the stream: whatever windows fail, the
\* finished stream has rendered and yielded one batch for every window of
\* range(1, total_pages + 1, batch_size), a failed window's successors too.
C5_FailureDoesNotEndStream ==
    /\ StreamDone =>
          /\ Len(yielded) = Len(WindowStarts)
          /\ Len(renders) = Len(WindowStarts)
          /\ \A k \in 1..Len(WindowStarts) :
                /\ renders[k][1] = WindowStarts[k]
                /\ yielded[k][1].page_num = WindowStarts[k]
    /\ StreamDone => start_page > total_pages

\* Witness of C5: a finished stream in which a window failed and a later
\* window was rendered and yielded normally.
C5_Witness ==
    /\ StreamDone
    /\ \E j, k \in 1..Len(yielded) :
          j < k /\ IsErrorBatch(yielded[j]) /\ ~IsErrorBatch(yielded[k])

JobEnded == pc = "idle" /\ tag >= 1

\* The queue responses issued for delivery tag t, in order.
ResponsesOf(t) == SelectSeq(responses, LAMBDA r : r.tag = t)

\* C7: when the page count cannot be read the generator raises before any
\* page is rendered and before any batch is yielded, and the job ends
\* rejected with requeue=false and zero chunks.
C7_UnreadableRejected ==
    /\ gpc = "raised" => renders = <<>> /\ yielded = <<>>
    /\ (gpc \notin {"none", "created", "pdfinfo"} /\ ~PdfInfoOk(pdf_arg)) =>
          gpc = "raised"
    /\ (JobEnded /\ gpc = "raised") =>
          /\ ResponsesOf(tag) = <<Nack(tag, FALSE)>>
          /\ produced = 0

\* Witness of C7: a job ended after pdfinfo rejected its downloaded bytes.
C7_Witness == JobEnded /\ gpc = "raised" /\ pdf_arg = GarbageBytes

\* The payload is not parseable JSON, or not a JSON object, or an object
\* whose "key" is missing or empty.
Malformed(b) ==
    \/ b.kind \in {"bad_utf8", "not_json"}
    \/ b.kind = "json" /\ b.val.t # "object"
    \/ b.kind = "json" /\ b.val.t = "object"
       /\ ("key" \notin DOMAIN b.val.fields \/ b.val.fields["key"] = JStr(""))

\* C8: every job with a malformed payload ends acknowledged, with no
\* download attempted and no chunk produced.
C8_MalformedAcknowledged ==
    (JobEnded /\ Malformed(body)) =>
        /\ ResponsesOf(tag) = <<Ack(tag)>>
        /\ downloads = 0
        /\ produced = 0

\* The download raised (None) or returned zero bytes.
NoBytes(v) == v = None \/ v = EmptyBytes

\* C9: a job whose download fails or returns no bytes is rejected with
\* requeue=false and never enters the streaming stage: no generator, no
\* rendered window, no chunk.
C9_DownloadFailureRejected ==
    (downloads >= 1 /\ NoBytes(pdf_bytes)) =>
        /\ pc = "idle"
        /\ ResponsesOf(tag) = <<Nack(tag, FALSE)>>
        /\ gpc = "none"
        /\ renders = <<>>
        /\ produced = 0

\* Witness of C9: a job ended after a download that returned zero bytes.
C9_Witness == JobEnded /\ downloads = 1 /\ pdf_bytes = EmptyBytes

\* C10: an exception that escapes the parser or the chunker during
\* streaming ends the job rejected with requeue=false, and no response of
\* process_job is ever a nack with requeue=true.
C10_NeverRequeued ==
    /\ \A k \in 1..Len(responses) :
          responses[k].op = "nack" => responses[k].requeue = FALSE
    /\ (JobEnded /\ gpc \in {"raised", "yielded", "yielded_err"}) =>
          ResponsesOf(tag) = <<Nack(tag, FALSE)>>

\* Witness of C10: a job ended by an exception out of chunk_batch after the
\* first window had been chunked.
C10_Witness == JobEnded /\ gpc = "yielded" /\ Len(yielded) = 2

\* C11: every delivery gets exactly one queue response: none while
\* process_job is running, exactly one (an ack or a nack) once it has
\* returned, never two.
C11_ExactlyOneResponse ==
    /\ \A t \in 1..tag : Len(ResponsesOf(t)) <= 1
    /\ (tag >= 1 /\ pc # "idle") => ResponsesOf(tag) = <<>>
    /\ JobEnded => Len(ResponsesOf(tag)) = 1
    /\ Len(responses) <= tag

\* Witness of C11: a job that went through download and streaming has
\* returned.
C11_Witness == JobEnded /\ downloads = 1 /\ Len(counts) >= 1

\* C12: a job with a valid payload and a successful download is
\* acknowledged only after the generator is exhausted and every window it
\* yielded has been passed through chunk_batch.
C12_AckAfterAllWindows ==
    (tag >= 1 /\ downloads >= 1 /\ ~NoBytes(pdf_bytes)
              /\ Ack(tag) \in {responses[k] : k \in 1..Len(responses)}) =>
        /\ StreamDone
        /\ Len(yielded) = Len(WindowStarts)
        /\ Len(counts) = Len(yielded)

\* Witness of C12: a three-window document has been acknowledged.
C12_Witness ==
    /\ JobEnded
    /\ ResponsesOf(tag) = <<Ack(tag)>>
    /\ Len(yielded) = 3

SomeWindowFailed == \E k \in 1..Len(yielded) : IsErrorBatch(yielded[k])

\* C13: a failed window is absorbed below the job level: its error dict
\* gives zero chunks, the other windows are still chunked, and unless an
\* exception reaches process_job the job ends acknowledged.
C13_WindowFailureAbsorbed ==
    /\ \A k \in 1..Len(counts) : IsErrorBatch(yielded[k]) => counts[k] = 0
    /\ (JobEnded /\ SomeWindowFailed /\ caught = "none") =>
          /\ ResponsesOf(tag) = <<Ack(tag)>>
          /\ StreamDone
          /\ Len(counts) = Len(WindowStarts)

\* Witness of C13: an acknowledged job whose first window failed and whose
\* second window gave chunks.
C13_Witness ==
    /\ JobEnded
    /\ ResponsesOf(tag) = <<Ack(tag)>>
    /\ Len(counts) >= 2
    /\ IsErrorBatch(yielded[1])
    /\ counts[2] > 0

\* The number of page dicts of the batches whose text is "".
RECURSIVE EmptyTextCount(_)
EmptyTextCount(batches) ==
    IF batches = <<>> THEN 0
    ELSE Cardinality({k \in 1..Len(Head(batches)) :
                         /\ "text" \in DOMAIN Head(batches)[k]
                         /\ Head(batches)[k].text = <<>>})
         + EmptyTextCount(Tail(batches))

\* C14: a failing inference call does not propagate: the page gets its
\* dict with its own page_num and text "" in the normal batch, the other
\* pages of the window are transcribed, the window is no error batch.
C14_InferenceFailureAbsorbed ==
    /\ \A k \in 1..Len(yielded) :
          ~IsErrorBatch(yielded[k]) =>
             /\ Len(yielded[k]) = renders[k][2] - renders[k][1] + 1
             /\ \A i \in 1..Len(yielded[k]) :
                   /\ yielded[k][i].page_num = renders[k][1] + i - 1
                   /\ "text" \in DOMAIN yielded[k][i]
                   /\ "error" \notin DOMAIN yielded[k][i]
    /\ infer_fails = EmptyTextCount(yielded)
                     + (IF gpc = "infer"
                        THEN EmptyTextCount(<<batch_results>>) ELSE 0)

\* Witness of C14: a finished stream with a normal batch of at least three
\* pages whose middle page has text "" and whose neighbours have text.
C14_Witness ==
    /\ StreamDone
    /\ \E k \in 1..Len(yielded) :
          /\ ~IsErrorBatch(yielded[k])
          /\ Len(yielded[k]) >= 3
          /\ yielded[k][2].text = <<>>
          /\ yielded[k][1].text # <<>>
          /\ yielded[k][3].text # <<>>

\* The text of a page dict is absent, empty or whitespace only.
BlankPage(page_data) ==
    \/ "text" \notin DOMAIN page_data
    \/ \A k \in 1..Len(page_data.text) : page_data.text[k] \in Whitespace

NonBlankPages(b) == SelectSeq(b, LAMBDA page_data : ~BlankPage(page_data))

\* C15: chunk_batch gives no chunk for a page whose text is empty,
\* whitespace only or absent, and the chunks of the other pages are those
\* of the batch without the blank pages.
C15_BlankPagesSkipped ==
    pc = "chunked" =>
        /\ chunks = chunk_batch(NonBlankPages(batch),
                                split_mode.hfail, split_mode.sem)
        /\ NonBlankPages(batch) = <<>> => chunks = <<>>

\* Witness of C15: a batch of a whitespace-only page and a page with text
\* has been chunked.
C15_Witness ==
    /\ pc = "chunked"
    /\ Len(batch) = 2
    /\ "text" \in DOMAIN batch[1]
    /\ batch[1].text = <<" ", "\n">>
    /\ ~BlankPage(batch[2])
    /\ chunks # <<>>

\* The source, page number and 50-character text prefix of a chunk.
IdKey(c) == <<Get(c.metadata, "source", "unknown_file"), c.metadata["page_num"],
              SubSeq(c.text, 1, IF Len(c.text) < 50 THEN Len(c.text) ELSE 50)>>

\* All the chunks chunk_batch can return for a batch.
AllChunksOf(b) ==
    UNION {{chunk_batch(b, hf, sem)[k] :
               k \in 1..Len(chunk_batch(b, hf, sem))} :
           hf \in BOOLEAN, sem \in SemOutcomes}

\* C16: the chunk id is a function of (source, page_num, first 50
\* characters of the text) only: chunks that agree on these have the same
\* id, whatever their position in the batch, their other metadata, the
\* rest of their text and the way the splitters behaved in the call.
C16_IdDependsOnKeyOnly ==
    pc = "chunked" =>
        \A k \in 1..Len(chunks) :
            \A c \in AllChunksOf(batch) :
                IdKey(chunks[k]) = IdKey(c) => chunks[k].id = c.id

\* Witness of C16: two chunks of one call with the same id and different
\* texts and metadata.
C16_Witness ==
    /\ pc = "chunked"
    /\ Len(chunks) = 2
    /\ chunks[1].id = chunks[2].id
    /\ chunks[1].text # chunks[2].text
    /\ chunks[1].metadata # chunks[2].metadata

\* The number of header sections of the non-blank pages of a batch.
RECURSIVE SectionCount(_)
SectionCount(b) ==
    IF b = <<>> THEN 0
    ELSE (IF BlankPage(Head(b)) THEN 0 ELSE Len(HeaderSplit(Head(b).text)))
         + SectionCount(Tail(b))

\* C17: splitter failures drop no text: when the header splitter fails the
\* page text is one section, when the semantic splitter fails every header
\* section is one segment, and under every combination of failures each
\* page with non-blank text gives at least one chunk.
C17_SplitterFallbacks ==
    pc = "chunked" =>
        LET kept == NonBlankPages(batch)
        IN  /\ Len(chunks) >= Len(kept)
            /\ (split_mode.hfail /\ split_mode.sem \in {"raise", "keep"}) =>
                  [k \in 1..Len(chunks) |-> chunks[k].text]
                     = [k \in 1..Len(kept) |-> kept[k].text]
            /\ (~split_mode.hfail /\ split_mode.sem = "raise") =>
                  Len(chunks) = SectionCount(batch)

\* Witness of C17: both splitters failed on a batch with a non-blank page.
C17_Witness ==
    /\ pc = "chunked"
    /\ split_mode.hfail
    /\ split_mode.sem = "raise"
    /\ chunks # <<>>

\* C18: streaming is pull-based: a window is rendered only after every
\* earlier batch has been through chunk_batch and the caller has asked for
\* the next one, and a suspended generator holds no rendered image.
C18_PullBased ==
    /\ gpc \notin {"infer"} => images = <<>>
    /\ Len(renders) <= Len(counts) + 1
    /\ GenRunning => (pc = "next" /\ Len(counts) = Len(yielded))
    /\ pc = "for" => (GenSuspended /\ Len(counts) = Len(yielded))

\* Witness of C18: the second window is being transcribed after the first
\* batch was chunked.
C18_Witness ==
    /\ gpc = "infer"
    /\ Len(renders) = 2
    /\ Len(counts) = 1
    /\ images # <<>>

\* C19: a worker holds at most one unanswered delivery, the one its running
\* process_job call is about, and no message is held by two workers or
\* both held and queued.
C19_OneJobInFlight ==
    pc = "queue" =>
        /\ \A w \in Workers :
              /\ Cardinality(wk[w].unacked) <= 1
              /\ wk[w].running # 0 => wk[w].unacked = {wk[w].running}
        /\ \A v, w \in Workers :
              v # w => wk[v].unacked \cap wk[w].unacked = {}
        /\ \A w \in Workers : \A k \in 1..Len(broker.ready) :
              broker.ready[k] \notin wk[w].unacked

\* Witness of C19: both workers are processing while a message waits.
C19_Witness ==
    /\ pc = "queue"
    /\ \A w \in Workers : wk[w].running # 0
    /\ broker.ready # <<>>

\* C20: the worker consumes only with its services loaded: process_job
\* never runs without parser and chunker, and a failed init_services ends
\* the process before it connects to the queue.
C20_NoJobWithoutModel ==
    /\ (mpc \in {"connect", "consuming"} \/ tag >= 1) =>
          /\ services.pdf_parser = "ready"
          /\ services.chunker = "ready"
          /\ services.minio_client = "ready"
    /\ (mpc \notin {"start", "init", "harness"} /\ services # ServicesAfter("none")) =>
          (mpc = "exited" /\ tag = 0)

\* Witness of C20: the vision model failed to load and the process exited
\* without having taken a job.
C20_Witness ==
    /\ mpc = "exited"
    /\ services.minio_client = "ready"
    /\ services.pdf_parser = "None"
    /\ tag = 0

\* The metadata keys a chunk of a transcribed page is to carry.
ChunkMetadataKeys ==
    {"source", "total_pages", "processed_at_dpi", "page_num", "chunk_strategy"}

\* The chunks of every page carry the five keys and the page's page_num.
ChunkKeysAndPageNum ==
    \A k \in 1..Len(batch) :
        LET result == PageChunks(batch[k], split_mode.hfail, split_mode.sem)
        IN  \A j \in 1..Len(result) :
                /\ ChunkMetadataKeys \subseteq DOMAIN result[j].metadata
                /\ result[j].metadata["page_num"] = batch[k].page_num

\* A chunk tagged "semantic" was produced by the semantic splitter, not by
\* the fallback taken when that splitter raised.
ChunkStrategyNamesSplitter ==
    \A j \in 1..Len(chunks) :
        chunks[j].metadata["chunk_strategy"] = "semantic"
            => split_mode.sem # "raise"

\* C21: every chunk of chunk_batch carries source, total_pages,
\* processed_at_dpi, page_num and chunk_strategy, page_num is that of its
\* page, and chunk_strategy names the splitter that produced the chunk,
\* also when the semantic splitter failed and the fallback was taken.
C21_ChunkMetadata ==
    pc = "chunked" =>
        /\ ChunkKeysAndPageNum
        /\ ChunkStrategyNamesSplitter

\* The batch of a failed window is one dict {page_num, error} numbered with
\* the start page of the window.
FailedWindowRecord(k) ==
    /\ Len(yielded[k]) = 1
    /\ DOMAIN yielded[k][1] = {"page_num", "error"}
    /\ yielded[k][1].page_num = renders[k][1]

\* C22: a failed window gives exactly one dict, numbered with its first
\* page and without metadata, and no other page of the window (the pages
\* first_page+1..last_page of its render request) gets a dict from this or
\* a later window.
C22_FailedWindowOnlyStartPage ==
    StreamDone =>
        \A k \in 1..Len(yielded) :
            IsErrorBatch(yielded[k]) =>
                /\ FailedWindowRecord(k)
                /\ \A q \in (renders[k][1] + 1)..renders[k][2] :
                      \A m \in 1..Len(yielded) : \A i \in 1..Len(yielded[m]) :
                          yielded[m][i].page_num # q

====
